---- MODULE Spec2Model ----
(***************************************************************************)
(* Model of src/src/to_chars.cpp: the digit engine print_9_digits, the     *)
(* binary32 and binary64 cores to_chars<float> / to_chars<double>, and the *)
(* public to_chars overloads that guard the buffer range.                  *)
(*                                                                         *)
(* The C++ code works on uint32_t / uint64_t values.  They are kept here   *)
(* at their width as little-endian tuples of 16-bit limbs (two limbs for   *)
(* uint32_t, four for uint64_t), and every product, shift and truncation   *)
(* of the source is computed on the limbs.  Bytes are ASCII codes.         *)
(***************************************************************************)
EXTENDS Integers, Sequences, FiniteSets

\* op: the function called; significand, decimal_exponent, fmt, first, last,
\* value: its arguments; exponent, buffer, cursor: the local `exponent`, the
\* caller's bytes and the moving `buffer` pointer; stored, loaded: the
\* offsets written and read so far; ub: an access left a table; pc: where
\* the call stands; result: what it returned; num_chars: the ints the
\* generic_to_chars / generic_to_chars_fixed calls returned, in order;
\* delegated: the function outside this file whose to_chars_result was
\* returned as it came ("none" when the overload built its own);
\* loaded_early: the offsets read before the call had stored to them.
VARIABLES op, significand, decimal_exponent, fmt, first, last, value,
          exponent, buffer, cursor, stored, loaded, ub, pc, result,
          num_chars, delegated, loaded_early

vars == <<op, significand, decimal_exponent, fmt, first, last, value,
          exponent, buffer, cursor, stored, loaded, ub, pc, result,
          num_chars, delegated, loaded_early>>

(***************************************************************************)
(* Fixed-width unsigned arithmetic on 16-bit limbs.                        *)
(***************************************************************************)
Limb == 256 * 256

\* A uint32_t from a small nonnegative integer (n < 2^31).
U32(n) == <<n % Limb, n \div Limb>>

\* A uint64_t from a uint32_t (zero extension: std::uint64_t(x)).
U64(u) == <<u[1], u[2], 0, 0>>

\* The full 32-bit product of two 16-bit limbs, as <<low limb, high limb>>.
Mul16(a, b) ==
    LET p1 == a * (b \div 256)
        p0 == a * (b % 256)
        t  == (p1 % 256) * 256 + p0
    IN  <<t % Limb, (p1 \div 256) + (t \div Limb)>>

\* uint32_t * uint64_t(uint32_t): the 64-bit product (it cannot wrap).
Mul32(a, b) ==
    LET p00 == Mul16(a[1], b[1])
        p01 == Mul16(a[1], b[2])
        p10 == Mul16(a[2], b[1])
        p11 == Mul16(a[2], b[2])
        c1  == p00[2] + p01[1] + p10[1]
        c2  == (c1 \div Limb) + p01[2] + p10[2] + p11[1]
    IN  <<p00[1], c1 % Limb, c2 % Limb, ((c2 \div Limb) + p11[2]) % Limb>>

Pow2(k) == CASE k = 0 -> 1 [] k = 1 -> 2 [] k = 2 -> 4 [] k = 3 -> 8
             [] k = 4 -> 16 [] k = 5 -> 32 [] k = 6 -> 64 [] k = 7 -> 128
             [] k = 8 -> 256 [] k = 9 -> 512 [] k = 10 -> 1024
             [] k = 11 -> 2048 [] k = 12 -> 4096 [] k = 13 -> 8192
             [] k = 14 -> 16384 [] k = 15 -> 32768 [] OTHER -> 65536

\* prod >>= k on a uint64_t, 0 <= k < 64 (logical shift).
Shr64(p, k) ==
    LET q == k \div 16
        r == k % 16
        at(i) == IF i <= 4 THEN p[i] ELSE 0
        limb(i) == (at(i + q) \div Pow2(r))
                   + (at(i + q + 1) % Pow2(r)) * Pow2(16 - r)
    IN  <<limb(1), limb(2), limb(3), limb(4)>>

\* prod += n on a uint64_t for a small n, wrapping at 2^64.
Add64(p, n) ==
    LET s1 == p[1] + n
        s2 == p[2] + (s1 \div Limb)
        s3 == p[3] + (s2 \div Limb)
        s4 == p[4] + (s3 \div Limb)
    IN  <<s1 % Limb, s2 % Limb, s3 % Limb, s4 % Limb>>

\* std::uint32_t(prod): the low 32 bits.
Lo32(p) == <<p[1], p[2]>>

\* std::uint32_t(prod >> 32): the high 32 bits.
Hi32(p) == <<p[3], p[4]>>

\* a - b on uint32_t, wrapping at 2^32.
Sub32(a, b) ==
    LET d1 == a[1] - b[1]
        bw == IF d1 < 0 THEN 1 ELSE 0
        d2 == a[2] - b[2] - bw
    IN  <<d1 % Limb, d2 % Limb>>

\* a <= b on two uint32_t.
Leq32(a, b) == a[2] < b[2] \/ (a[2] = b[2] /\ a[1] <= b[1])

\* a >= c for a uint32_t a and an integer constant c < 2^31.
Geq32(a, c) == a[2] > c \div Limb \/ (a[2] = c \div Limb /\ a[1] >= c % Limb)

\* a >= c for a uint64_t a and an integer constant c < 2^31.
Geq64(a, c) == a[3] > 0 \/ a[4] > 0 \/ Geq32(Lo32(a), c)

\* The integer a uint32_t holds when it is below 2^16, else a value past
\* every table (the caller treats it as an out-of-bounds index).
Small(u) == IF u[2] = 0 THEN u[1] ELSE Limb

\* uint64_t / d and uint64_t % d for a divisor d <= 10^4 (long division
\* from the top limb; every partial dividend stays below 2^31).
DivMod64(p, d) ==
    LET c4 == p[4]
        c3 == (c4 % d) * Limb + p[3]
        c2 == (c3 % d) * Limb + p[2]
        c1 == (c2 % d) * Limb + p[1]
    IN  [quot |-> <<c1 \div d, c2 \div d, c3 \div d, c4 \div d>>, rem |-> c1 % d]

\* significand / 100000000 on a uint64_t: floor(floor(x / 10^4) / 10^4).
Div1e8(p) == DivMod64(DivMod64(p, 10000).quot, 10000).quot

(***************************************************************************)
(* The radix-100 tables and the byte stores.                               *)
(***************************************************************************)
Ch0 == 48
ChDot == 46
ChE == 101
ChPlus == 43
ChMinus == 45

\* radix_100_head_table[k], k in 0..199: entry i is (first digit of i, '.').
radix_100_head_table(k) ==
    IF k % 2 = 1 THEN ChDot
    ELSE IF k \div 2 < 10 THEN Ch0 + (k \div 2) ELSE Ch0 + ((k \div 2) \div 10)

\* radix_table[k], k in 0..199: entry i is the two decimal digits of i.
radix_table(k) ==
    IF k % 2 = 0 THEN Ch0 + ((k \div 2) \div 10) ELSE Ch0 + ((k \div 2) % 10)

TableSize == 200

\* The running state of one call: the buffer bytes, the moving `buffer`
\* pointer (cur), the caller's `exponent`, the offsets stored to and loaded
\* from, whether an access left a table (undefined behaviour), the ints
\* the generic writers returned and the function the result came from.
Machine(buf, cur, exp) ==
    [buf |-> buf, cur |-> cur, exp |-> exp, st |-> {}, ld |-> {}, ub |-> FALSE,
     nc |-> <<>>, via |-> "none", le |-> {}]

\* *(p) = b for the byte at offset off.
StoreByte(m, off, b) ==
    [m EXCEPT !.buf = IF off \in DOMAIN @ THEN [@ EXCEPT ![off] = b] ELSE @,
              !.st = @ \cup {off}]

\* What a read of a byte past either table yields: nothing the code may use.
Poison == Ch0 + 15

\* std::memcpy(buffer + off, radix_100_head_table + n * 2, 2)
StoreHead(m, n, off) ==
    IF n * 2 + 1 < TableSize
    THEN StoreByte(StoreByte(m, off, radix_100_head_table(n * 2)),
                   off + 1, radix_100_head_table(n * 2 + 1))
    ELSE [StoreByte(StoreByte(m, off, Poison), off + 1, Poison) EXCEPT !.ub = TRUE]

\* buffer[off] = radix_table[n * 2 + 1]
StoreSecond(m, n, off) ==
    IF n * 2 + 1 < TableSize
    THEN StoreByte(m, off, radix_table(n * 2 + 1))
    ELSE [StoreByte(m, off, Poison) EXCEPT !.ub = TRUE]

\* print_1_digit(n, buffer + off)
print_1_digit(m, n, off) == StoreByte(m, off, Ch0 + n)

\* print_2_digits(n, buffer + off)
print_2_digits(m, n, off) ==
    IF n * 2 + 1 < TableSize
    THEN StoreByte(StoreByte(m, off, radix_table(n * 2)),
                   off + 1, radix_table(n * 2 + 1))
    ELSE [StoreByte(StoreByte(m, off, Poison), off + 1, Poison) EXCEPT !.ub = TRUE]

\* The byte a read of buffer[off] sees, and the machine after the read.
Peek(m, off) == IF off \in DOMAIN m.buf THEN m.buf[off] ELSE Poison
Touch(m, off) ==
    [m EXCEPT !.ld = @ \cup {off},
              !.le = IF off \in m.st THEN @ ELSE @ \cup {off}]

\* unsigned(c): 1 for true, 0 for false.
B2N(c) == IF c THEN 1 ELSE 0

\* prod = std::uint32_t(prod) * std::uint64_t(100)
NextProd(prod) == Mul32(Lo32(prod), U32(100))

\* TrimLast looking one byte too far: buffer[k + 1] decides.
TrimLast_LooksAhead(m, k) ==
    [Touch(m, m.cur + k + 1) EXCEPT
        !.cur = @ + k + B2N(Peek(m, m.cur + k + 1) > Ch0)]

\* TrimLast with the last digit always kept (the trailing '0' is not dropped).
TrimLast_KeepZero(m, k) == [Touch(m, m.cur + k) EXCEPT !.cur = @ + k + 1]

\* buffer += (k + unsigned(buffer[k] > '0')): the last pair is at k-1, k.
TrimLast(m, k) ==
    [Touch(m, m.cur + k) EXCEPT !.cur = @ + k + B2N(Peek(m, m.cur + k) > Ch0)]

\* HeadOnly with the test of buffer[2] left out: a two-digit head keeps
\* its second digit even when it is '0'.
HeadOnly_KeepSecond(m, two) ==
    [Touch(m, m.cur + 2) EXCEPT !.cur = @ + 1 + B2N(two) * 2]

\* HeadOnly with the "* 2" left out: the pointer stops after the '.'.
HeadOnly_KeepDot(m, two) ==
    [Touch(m, m.cur + 2) EXCEPT
        !.cur = @ + 1 + (IF two /\ Peek(m, m.cur + 2) > Ch0 THEN 1 ELSE 0)]

\* buffer += (1 + (unsigned(two) & unsigned(buffer[2] > '0')) * 2)
HeadOnly(m, two) ==
    [Touch(m, m.cur + 2) EXCEPT
        !.cur = @ + 1 + (IF two /\ Peek(m, m.cur + 2) > Ch0 THEN 1 ELSE 0) * 2]

\* The thresholds of the trailing-zero tests:
\* std::uint32_t((std::uint64_t(1) << 32) / 1000000), / 10000 and / 100.
Zero2 == Lo32(DivMod64(<<0, 0, 1, 0>>, 100).quot)
Zero4 == Lo32(DivMod64(<<0, 0, 1, 0>>, 10000).quot)
Zero6 == Lo32(DivMod64(DivMod64(<<0, 0, 1, 0>>, 10000).quot, 100).quot)

\* RemainingZero with the threshold of four digits taken for six.
RemainingZero_WideThreshold(prod, r) ==
    Leq32(Lo32(prod), IF r = 6 THEN Zero4 ELSE IF r = 4 THEN Zero4 ELSE Zero2)

\* "Remaining r digits are all zero?": std::uint32_t(prod) <=
\* std::uint32_t((std::uint64_t(1) << 32) / 10^r), for r = 6, 4, 2.
RemainingZero(prod, r) ==
    Leq32(Lo32(prod), IF r = 6 THEN Zero6 ELSE IF r = 4 THEN Zero4 ELSE Zero2)

\* The tail of a band of print_9_digits once the head is written: `r` digits
\* remain after the head (6, 4 or 2), prod holds their fraction.
RECURSIVE Pairs(_, _, _, _)
Pairs(m, prod, r, k) ==
    \* k: offset of the last byte written so far relative to the pointer
    LET p == NextProd(prod)
        w == print_2_digits(m, Small(Hi32(p)), m.cur + k + 1)
        left == r - 2
    IN  IF left = 0 THEN TrimLast(w, k + 2)
        ELSE IF RemainingZero(p, left)
             THEN TrimLast(w, k + 2)
             ELSE Pairs(w, p, left, k + 2)

\* Band with the exponent raised by r alone, a two-digit head not counted.
Band_NoHeadCarry(m, prod, r) ==
    LET head_digits == Small(Hi32(prod))
        two == head_digits >= 10
        m1 == StoreSecond(StoreHead(m, head_digits, m.cur), head_digits, m.cur + 2)
        m2 == [m1 EXCEPT !.exp = @ + r]
        thr == IF r = 6 THEN Zero6 ELSE IF r = 4 THEN Zero4 ELSE Zero2
    IN  IF Leq32(Lo32(prod), thr)
        THEN HeadOnly(m2, two)
        ELSE Pairs([m2 EXCEPT !.cur = @ + B2N(two)], prod, r, 1)

\* One band of print_9_digits with a one-or-two digit head: the head,
\* the exponent, the all-zero shortcut, and the pairs that follow.
Band(m, prod, r) ==
    LET head_digits == Small(Hi32(prod))
        two == head_digits >= 10
        m1 == StoreSecond(StoreHead(m, head_digits, m.cur), head_digits, m.cur + 2)
        m2 == [m1 EXCEPT !.exp = @ + r + B2N(two)]
    IN  IF RemainingZero(prod, r)
        THEN HeadOnly(m2, two)
        ELSE Pairs([m2 EXCEPT !.cur = @ + B2N(two)], prod, r, 1)

\* BandMultiplier with the multiplier of the 5 or 6 digit band rounded
\* down: floor(2^32 / 10^4) in place of the ceiling.
BandMultiplier_RoundedDown(s32) ==
    IF Geq32(s32, 100000000) THEN 1441151882
    ELSE IF Geq32(s32, 1000000) THEN 281474978
    ELSE IF Geq32(s32, 10000) THEN 429496
    ELSE 42949673

\* The multiplier print_9_digits takes for s32 >= 100, by band.
BandMultiplier(s32) ==
    IF Geq32(s32, 100000000) THEN 1441151882
    ELSE IF Geq32(s32, 1000000) THEN 281474978
    ELSE IF Geq32(s32, 10000) THEN 429497
    ELSE 42949673

\* BandShift without the 9-digit band: a 9-digit s32 is shifted as an
\* 8-digit one is.
BandShift_NoNineDigits(s32) ==
    IF Geq32(s32, 1000000) THEN 16 ELSE 0

\* The shift print_9_digits applies to the product (prod >>= 25, >>= 16,
\* or none).
BandShift(s32) ==
    IF Geq32(s32, 100000000) THEN 25
    ELSE IF Geq32(s32, 1000000) THEN 16
    ELSE 0

\* auto prod = s32 * std::uint64_t(multiplier); prod >>= shift
BandProd(s32) == Shr64(Mul32(s32, U32(BandMultiplier(s32))), BandShift(s32))

\* What s32 * std::uint64_t(b) carries out of its 64 bits.
Mul32Carry(a, b) ==
    LET p00 == Mul16(a[1], b[1])
        p01 == Mul16(a[1], b[2])
        p10 == Mul16(a[2], b[1])
        p11 == Mul16(a[2], b[2])
        c1  == p00[2] + p01[1] + p10[1]
        c2  == (c1 \div Limb) + p01[2] + p10[2] + p11[1]
    IN  ((c2 \div Limb) + p11[2]) \div Limb

\* The nine dense digits of a 9-digit block at the pointer (no trimming).
Dense9(m, s32) ==
    LET p0 == BandProd(s32)
        m0 == StoreHead(m, Small(Hi32(p0)), m.cur)
        p1 == NextProd(p0)
        m1 == print_2_digits(m0, Small(Hi32(p1)), m.cur + 2)
        p2 == NextProd(p1)
        m2 == print_2_digits(m1, Small(Hi32(p2)), m.cur + 4)
        p3 == NextProd(p2)
        m3 == print_2_digits(m2, Small(Hi32(p3)), m.cur + 6)
        p4 == NextProd(p3)
    IN  print_2_digits(m3, Small(Hi32(p4)), m.cur + 8)

\* print_9_digits(s32, exponent, buffer)
print_9_digits(m, s32) ==
    IF Geq32(s32, 100000000)
    THEN [Dense9(m, s32) EXCEPT !.exp = @ + 8, !.cur = @ + 10]
    ELSE IF Geq32(s32, 1000000)
    THEN Band(m, BandProd(s32), 6)
    ELSE IF Geq32(s32, 10000)
    THEN Band(m, BandProd(s32), 4)
    ELSE IF Geq32(s32, 100)
    THEN Band(m, BandProd(s32), 2)
    ELSE LET n == Small(s32)
             m1 == StoreSecond(StoreHead(m, n, m.cur), n, m.cur + 2)
         IN  HeadOnly([m1 EXCEPT !.exp = @ + B2N(n >= 10)], n >= 10)

(***************************************************************************)
(* to_chars<float> and to_chars<double>.                                   *)
(***************************************************************************)
\* std::memcpy(buffer, "e-", 2) / "e+": two bytes at the pointer.
StoreESign(m, sign) == StoreByte(StoreByte(m, m.cur, ChE), m.cur + 1, sign)

\* std::memcpy(buffer, "e+00", 4)
StoreEPlus00(m) ==
    StoreByte(StoreByte(StoreESign(m, ChPlus), m.cur + 2, Ch0), m.cur + 3, Ch0)

\* if (exponent < 0): "e-", buffer += 2, exponent = -exponent
NegExp(m) == [StoreESign(m, ChMinus) EXCEPT !.cur = @ + 2, !.exp = -@]

\* else: "e+", buffer += 2
PosExp(m) == [StoreESign(m, ChPlus) EXCEPT !.cur = @ + 2]

\* ZeroExp with the format test left out: "e+00" under every format.
ZeroExp_Always(m, f) == [StoreEPlus00(m) EXCEPT !.cur = @ + 4]

\* else if (exponent == 0): "e+00" under scientific, then return buffer
ZeroExp(m, f) ==
    IF f = "scientific" THEN [StoreEPlus00(m) EXCEPT !.cur = @ + 4] ELSE m

\* to_chars<float>: print_2_digits(std::uint32_t(exponent), buffer); buffer += 2
FloatExpDigits(m) == [print_2_digits(m, m.exp, m.cur) EXCEPT !.cur = @ + 2]

\* DoubleExpDigits with `exponent > 100` for `exponent >= 100`.
DoubleExpDigits_Above100(m) ==
    IF m.exp > 100
    THEN LET prod == m.exp * 6554
             d1 == prod \div Limb
             d2 == ((prod % Limb) * 5) \div 32768
         IN  [print_1_digit(print_2_digits(m, d1, m.cur), d2, m.cur + 2)
                EXCEPT !.cur = @ + 3]
    ELSE [print_2_digits(m, m.exp, m.cur) EXCEPT !.cur = @ + 2]

\* ExpProd with the multiplier rounded down: floor(2^16 / 10).
ExpProd_RoundedDown(e) == e * 6553

\* auto prod = std::uint32_t(exponent) * std::uint32_t(6554)
ExpProd(e) == e * 6554

\* auto d1 = prod >> 16
ExpD1(prod) == prod \div Limb

\* prod = std::uint16_t(prod) * std::uint32_t(5); auto d2 = prod >> 15
ExpD2(prod) == ((prod % Limb) * 5) \div 32768

\* to_chars<double>: three digits through the 6554 multiply when
\* exponent >= 100, two digits otherwise.
DoubleExpDigits(m) ==
    IF m.exp >= 100
    THEN LET prod == ExpProd(m.exp)
             d1 == ExpD1(prod)
             d2 == ExpD2(prod)
         IN  [print_1_digit(print_2_digits(m, d1, m.cur), d2, m.cur + 2)
                EXCEPT !.cur = @ + 3]
    ELSE [print_2_digits(m, m.exp, m.cur) EXCEPT !.cur = @ + 2]

\* FixedBand with the exponent raised by r alone, a two-digit head not counted.
FixedBand_NoHeadCarry(m, prod, r) ==
    LET head_digits == Small(Hi32(prod))
        two == B2N(head_digits >= 10)
        m1 == StoreSecond(StoreHead(m, head_digits, m.cur), head_digits, m.cur + 2)
        m2 == [m1 EXCEPT !.exp = @ + r, !.cur = @ + two]
        p1 == NextProd(prod)
        m3 == print_2_digits(m2, Small(Hi32(p1)), m2.cur + 2)
        p2 == NextProd(p1)
        m4 == IF r >= 4 THEN print_2_digits(m3, Small(Hi32(p2)), m2.cur + 4) ELSE m3
        p3 == NextProd(p2)
        m5 == IF r >= 6 THEN print_2_digits(m4, Small(Hi32(p3)), m2.cur + 6) ELSE m4
    IN  [m5 EXCEPT !.cur = @ + r + 2]

\* The first block of to_chars<double> when a second block follows and the
\* first has at most 8 digits: the head and all r digits after it.
FixedBand(m, prod, r) ==
    LET head_digits == Small(Hi32(prod))
        two == B2N(head_digits >= 10)
        m1 == StoreSecond(StoreHead(m, head_digits, m.cur), head_digits, m.cur + 2)
        m2 == [m1 EXCEPT !.exp = @ + r + two, !.cur = @ + two]
        p1 == NextProd(prod)
        m3 == print_2_digits(m2, Small(Hi32(p1)), m2.cur + 2)
        p2 == NextProd(p1)
        m4 == IF r >= 4 THEN print_2_digits(m3, Small(Hi32(p2)), m2.cur + 4) ELSE m3
        p3 == NextProd(p2)
        m5 == IF r >= 6 THEN print_2_digits(m4, Small(Hi32(p3)), m2.cur + 6) ELSE m4
    IN  [m5 EXCEPT !.cur = @ + r + 2]

\* SecondProd without its `prod += 1`.
SecondProd_NoIncrement(second_block) ==
    Shr64(Mul32(second_block, U32(281474978)), 16)

\* prod = second_block * 281474978; prod >>= 16; prod += 1
SecondProd(second_block) == Add64(Shr64(Mul32(second_block, U32(281474978)), 16), 1)

\* Dense17 with the first block's `buffer += 10` kept from print_9_digits:
\* the second block lands ten bytes further on.
Dense17_AdvancedTwice(m, first_block, second_block) ==
    LET m0 == [Dense9(m, first_block) EXCEPT !.cur = @ + 10]
        p0 == SecondProd(second_block)
        m1 == print_2_digits(m0, Small(Hi32(p0)), m0.cur + 10)
        p1 == NextProd(p0)
        m2 == print_2_digits(m1, Small(Hi32(p1)), m0.cur + 12)
        p2 == NextProd(p1)
        m3 == print_2_digits(m2, Small(Hi32(p2)), m0.cur + 14)
        p3 == NextProd(p2)
        m4 == print_2_digits(m3, Small(Hi32(p3)), m0.cur + 16)
    IN  [m4 EXCEPT !.exp = @ + 8, !.cur = @ + 18]

\* Dense17 without its `exponent += 8`.
Dense17_ExponentForgotten(m, first_block, second_block) ==
    LET m0 == Dense9(m, first_block)
        p0 == SecondProd(second_block)
        m1 == print_2_digits(m0, Small(Hi32(p0)), m.cur + 10)
        p1 == NextProd(p0)
        m2 == print_2_digits(m1, Small(Hi32(p1)), m.cur + 12)
        p2 == NextProd(p1)
        m3 == print_2_digits(m2, Small(Hi32(p2)), m.cur + 14)
        p3 == NextProd(p2)
        m4 == print_2_digits(m3, Small(Hi32(p3)), m.cur + 16)
    IN  [m4 EXCEPT !.cur = @ + 18]

\* The 17-digit path: nine dense digits, then the eight of the second block.
Dense17(m, first_block, second_block) ==
    LET m0 == Dense9(m, first_block)
        p0 == SecondProd(second_block)
        m1 == print_2_digits(m0, Small(Hi32(p0)), m.cur + 10)
        p1 == NextProd(p0)
        m2 == print_2_digits(m1, Small(Hi32(p1)), m.cur + 12)
        p2 == NextProd(p1)
        m3 == print_2_digits(m2, Small(Hi32(p2)), m.cur + 14)
        p3 == NextProd(p2)
        m4 == print_2_digits(m3, Small(Hi32(p3)), m.cur + 16)
    IN  [m4 EXCEPT !.exp = @ + 8, !.cur = @ + 18]

\* The second block after a first block of at most 8 digits, with trimming.
SecondBlock(m, second_block) ==
    LET prod == SecondProd(second_block)
        w == print_2_digits(m, Small(Hi32(prod)), m.cur)
    IN  IF RemainingZero(prod, 6) THEN TrimLast(w, 1) ELSE Pairs(w, prod, 6, 1)

\* first_block and second_block of a significand >= 10^8.
FirstBlock(sig) == Lo32(Div1e8(sig))
SecondOf(sig) == Sub32(Lo32(sig), Lo32(Mul32(FirstBlock(sig), U32(100000000))))

\* The significand part of to_chars<double>.
DoubleDigits(m, sig) ==
    LET big == Geq64(sig, 100000000)
        first_block == IF big THEN FirstBlock(sig) ELSE Lo32(sig)
        second_block == IF big THEN SecondOf(sig) ELSE U32(0)
        m0 == IF big THEN [m EXCEPT !.exp = @ + 8] ELSE m
        no_second_block == IF big THEN second_block = U32(0) ELSE TRUE
    IN  IF no_second_block THEN print_9_digits(m0, first_block)
        ELSE IF Geq32(first_block, 100000000)
        THEN Dense17(m0, first_block, second_block)
        ELSE SecondBlock(
               IF Geq32(first_block, 1000000)
               THEN FixedBand(m0, Shr64(Mul32(first_block, U32(281474978)), 16), 6)
               ELSE IF Geq32(first_block, 10000)
               THEN FixedBand(m0, Mul32(first_block, U32(429497)), 4)
               ELSE IF Geq32(first_block, 100)
               THEN FixedBand(m0, Mul32(first_block, U32(42949673)), 2)
               ELSE LET n == Small(first_block)
                        m1 == StoreSecond(StoreHead(m0, n, m0.cur), n, m0.cur + 2)
                    IN  [m1 EXCEPT !.exp = @ + B2N(n >= 10),
                                   !.cur = @ + 2 + B2N(n >= 10)],
               second_block)

\* The exponent part of to_chars<float>.
FloatSuffix(m, f) ==
    IF m.exp < 0 THEN FloatExpDigits(NegExp(m))
    ELSE IF m.exp = 0 THEN ZeroExp(m, f)
    ELSE FloatExpDigits(PosExp(m))

\* The exponent part of to_chars<double>.
DoubleSuffix(m, f) ==
    IF m.exp < 0 THEN DoubleExpDigits(NegExp(m))
    ELSE IF m.exp = 0 THEN ZeroExp(m, f)
    ELSE DoubleExpDigits(PosExp(m))

(***************************************************************************)
(* Decimal digit strings and the values they denote.                       *)
(***************************************************************************)
\* p * 10 + d on a uint64_t.
MulAdd10(p, d) ==
    LET s1 == p[1] * 10 + d
        s2 == p[2] * 10 + (s1 \div Limb)
        s3 == p[3] * 10 + (s2 \div Limb)
        s4 == p[4] * 10 + (s3 \div Limb)
    IN  <<s1 % Limb, s2 % Limb, s3 % Limb, s4 % Limb>>

\* The uint64_t a string of decimal digits denotes.
RECURSIVE FromDigits(_)
FromDigits(ds) ==
    IF ds = <<>> THEN <<0, 0, 0, 0>>
    ELSE MulAdd10(FromDigits(SubSeq(ds, 1, Len(ds) - 1)), ds[Len(ds)])

\* The decimal digits of a uint64_t, most significant first (<<>> for 0).
RECURSIVE DecDigits(_)
DecDigits(v) ==
    IF v = <<0, 0, 0, 0>> THEN <<>>
    ELSE LET qr == DivMod64(v, 10) IN Append(DecDigits(qr.quot), qr.rem)

(***************************************************************************)
(* The public to_chars overloads.  The writers they hand the value to      *)
(* (to_chars_float_impl, generic_to_chars, generic_to_chars_fixed,         *)
(* to_chars_hex, to_chars_nonfinite, to_chars_printf_impl) are outside     *)
(* this file: a call of one is a choice among the results it can give.     *)
(***************************************************************************)
BufferSize == 32

\* static_cast<int>(std::errc::result_out_of_range)
ERange == 34

Formats == {"general", "scientific", "fixed", "hex"}

\* memcpy(first, text, Len(text)) for a text given as its bytes.
StoreText(m, off, text) ==
    [m EXCEPT !.buf = [i \in DOMAIN @ |->
                         IF i >= off /\ i < off + Len(text)
                         THEN text[i - off + 1] ELSE @[i]],
              !.st = @ \cup (off .. (off + Len(text) - 1))]

TextNan == <<110, 97, 110>>
TextNanSnan == <<110, 97, 110, 40, 115, 110, 97, 110, 41>>
TextNanInd == <<110, 97, 110, 40, 105, 110, 100, 41>>

\* What a call returns: to_chars_result {ptr, ec}.
Result(ptr, ec) == [ptr |-> ptr, ec |-> ec]

\* The lengths a writer outside this file may report for [f, l): every
\* length that fits is possible; three of them are kept.
FitLens(f, l) == {n \in {1, 3, l - f} : n >= 1 /\ n <= l - f}

\* The int a generic_to_chars / generic_to_chars_fixed call may return:
\* a length, or -1, 0 or -ERANGE when it did not write the value.
NumChars(f, l) == FitLens(f, l) \cup {-1, 0, -ERange}

\* The to_chars_result a writer outside this file may return: the end of
\* its text, or {last, result_out_of_range}.
Outcomes(f, l) ==
    {Result(f + n, "ok") : n \in FitLens(f, l)} \cup {Result(l, "result_out_of_range")}

\* The machine after a writer outside this file stored n bytes at f (the
\* text is that writer's business; the offsets are kept).
Wrote(m, f, n) == [m EXCEPT !.st = @ \cup (f .. (f + n - 1))]

\* The outcomes of a call outside this file, named as the function the
\* overload returned them from.
Via(outs, name) == {<<[o[1] EXCEPT !.via = name], o[2]>> : o \in outs}

\* The text of a zero: '-' for a negative one, "0", and "e+00" under
\* scientific.
ZeroText(v, fm) ==
    (IF v.neg THEN <<ChMinus>> ELSE <<>>) \o <<Ch0>>
    \o (IF fm = "scientific" THEN <<ChE, ChPlus, Ch0, Ch0>> ELSE <<>>)

\* to_chars_float_impl(first, last, value, fmt, precision): the range check
\* of the contract, the text of a zero, and for every other value its text
\* or result_out_of_range.
to_chars_float_impl(m, f, l, v, fm) ==
    IF f > l THEN {<<m, Result(l, "invalid_argument")>>}
    ELSE IF v.class = "zero"
    THEN IF Len(ZeroText(v, fm)) > l - f
         THEN {<<m, Result(l, "result_out_of_range")>>}
         ELSE {<<StoreText(m, f, ZeroText(v, fm)),
                 Result(f + Len(ZeroText(v, fm)), "ok")>>}
    ELSE {<<IF r.ec = "ok" THEN Wrote(m, f, r.ptr - f) ELSE m, r>> : r \in Outcomes(f, l)}

\* to_chars_printf_impl, to_chars_hex, to_chars_nonfinite: the range check
\* of the contract, then text or failure.
Delegate(m, f, l) ==
    IF f > l THEN {<<m, Result(l, "invalid_argument")>>}
    ELSE {<<IF r.ec = "ok" THEN Wrote(m, f, r.ptr - f) ELSE m, r>> : r \in Outcomes(f, l)}

\* return to_chars_printf_impl(first, last, value, fmt, precision)
to_chars_printf_impl(m, f, l) == Via(Delegate(m, f, l), "to_chars_printf_impl")

\* return to_chars_hex(first, last, value, precision)
to_chars_hex(m, f, l) == Via(Delegate(m, f, l), "to_chars_hex")

\* return to_chars_nonfinite(first, last, value, classification)
to_chars_nonfinite(m, f, l) == Via(Delegate(m, f, l), "to_chars_nonfinite")

\* const auto num_chars = generic_to_chars(...) or generic_to_chars_fixed(...)
\* returning n: the bytes it stored when n > 0, and n kept.
Called(m, f, n) ==
    [(IF n > 0 THEN Wrote(m, f, n) ELSE m) EXCEPT !.nc = Append(@, n)]

\* The general / scientific branch: if (num_chars > 0) return {first +
\* num_chars, errc()}; every other result reaches the printf fallback.
GeneralBranch(m, f, l) ==
    UNION {LET c == Called(m, f, n)
           IN  IF n > 0 THEN {<<c, Result(f + n, "ok")>>}
               ELSE to_chars_printf_impl(c, f, l) : n \in NumChars(f, l)}

\* FixedBranch with the test for -result_out_of_range left out: the
\* sentinel reaches the printf fallback like every other failure.
FixedBranch_NoSentinel(m, f, l) ==
    UNION {LET c == Called(m, f, n)
           IN  IF n > 0 THEN {<<c, Result(f + n, "ok")>>}
               ELSE to_chars_printf_impl(c, f, l) : n \in NumChars(f, l)}

\* The fixed branch: num_chars > 0 returns the text, num_chars ==
\* -int(errc::result_out_of_range) returns {last, result_out_of_range},
\* every other result reaches the printf fallback.
FixedBranch(m, f, l) ==
    UNION {LET c == Called(m, f, n)
           IN  IF n > 0 THEN {<<c, Result(f + n, "ok")>>}
               ELSE IF n = -ERange THEN {<<c, Result(l, "result_out_of_range")>>}
               ELSE to_chars_printf_impl(c, f, l) : n \in NumChars(f, l)}

\* The format branch of the long double (80/128 bit) and __float128 overloads.
FormatBranch(m, f, l, fm) ==
    IF fm \in {"general", "scientific"} THEN GeneralBranch(m, f, l)
    ELSE IF fm = "hex" THEN to_chars_hex(m, f, l)
    ELSE FixedBranch(m, f, l)

\* The 80 bit overload on NaN or infinity: generic_to_chars first, and the
\* format branch when it did not return a length.
NonFinite80(m, f, l, fm) ==
    UNION {LET c == Called(m, f, n)
           IN  IF n > 0 THEN {<<c, Result(f + n, "ok")>>}
               ELSE FormatBranch(c, f, l, fm) : n \in NumChars(f, l)}

\* to_chars(char*, char*, long double, ...) for 80 and 128 bit long double.
to_chars_long_double(m, o, f, l, v, fm) ==
    IF f > l THEN {<<m, Result(l, "invalid_argument")>>}
    ELSE IF v.class \in {"nan", "inf"} /\ o = "ldbl128"
    THEN to_chars_nonfinite(m, f, l)
    ELSE IF v.class \in {"nan", "inf"}
    THEN NonFinite80(m, f, l, fm)
    ELSE FormatBranch(m, f, l, fm)

\* to_chars(char*, char*, long double, ...) when long double is none of
\* 64, 80 or 128 bits wide.
to_chars_long_double_fallback(m, f, l, v) ==
    IF v.class = "nan"
    THEN LET is_negative == v.neg
             m1 == IF is_negative THEN StoreByte(m, f, ChMinus) ELSE m
             f1 == IF is_negative THEN f + 1 ELSE f
         IN  IF v.signaling
             THEN {<<StoreText(m1, f1, TextNanSnan),
                     Result(f1 + 9 + B2N(is_negative), "ok")>>}
             ELSE IF is_negative
             THEN {<<StoreText(m1, f1, TextNanInd), Result(f1 + 9, "ok")>>}
             ELSE {<<StoreText(m1, f1, TextNan), Result(f1 + 3, "ok")>>}
    ELSE to_chars_printf_impl(m, f, l)

\* to_chars(char*, char*, __float128, ...)
to_chars_float128(m, f, l, v, fm) ==
    IF f > l THEN {<<m, Result(l, "invalid_argument")>>}
    ELSE IF v.class \in {"nan", "inf"}
    THEN to_chars_nonfinite(m, f, l)
    ELSE FormatBranch(m, f, l, fm)

(***************************************************************************)
(* The calls examined.                                                     *)
(***************************************************************************)
\* The digit strings the significands are drawn from: for every length n
\* and every count t < n of trailing zeros, one string per shape.  Shape 1
\* is 1 0..0 1, shape 2 is all nines, shape 3 counts 1 2 3 ..., and a shape
\* past these takes its first, inner and last digit from its number.
NumShapes == 3
MaxDigits32 == 9
MaxDigits64 == 17

ShapeDigit(sh, i, lastpos) ==
    CASE sh = 1 -> IF i = 1 \/ i = lastpos THEN 1 ELSE 0
      [] sh = 2 -> 9
      [] sh = 3 -> IF i % 10 = 0 THEN (IF i = lastpos THEN 5 ELSE 0) ELSE i % 10
      [] OTHER  -> IF i = 1 THEN ((sh * 3) % 9) + 1
                   ELSE IF i = lastpos THEN ((sh * 5) % 9) + 1
                   ELSE (sh * 7) % 10

DigitString(sh, n, t) ==
    [i \in 1..n |-> IF i > n - t THEN 0 ELSE ShapeDigit(sh, i, n - t)]

\* The values of the spec's scenario table that no shape gives.
Landmarks == { <<1, 5>>, <<1, 2, 3, 4, 5, 6, 7>>, <<3, 1, 9, 7, 6, 3, 3>>,
               <<1, 7, 9, 7, 6, 9, 3, 1, 3, 4, 8, 6, 2, 3, 1, 5, 7>> }

DigitStrings(maxn) ==
    {DigitString(sh, n, t) : sh \in 1..NumShapes, n \in 1..maxn, t \in 0..(maxn - 1)}
    \cup {ds \in Landmarks : Len(ds) <= maxn}

Significands(maxn) ==
    {FromDigits(ds) : ds \in {d \in DigitStrings(maxn) : d[1] # 0}}

\* The scientific exponents asked for; the exponent passed in is the value
\* exponent, E - (digits - 1).
FloatExps == {-45, -1, 0, 1, 38}
DoubleExps == {-999, -100, -99, 0, 99, 100, 999}

\* Every scientific exponent of three digits or fewer, asked for with the
\* significand 1.
ExpSweep == (0 - 999) .. 999

\* The bytes the caller's buffer holds before the call.
GarbageBytes == {Ch0, Ch0 + 9}

Finite == [class |-> "finite", neg |-> FALSE, signaling |-> FALSE]

Values ==
    {[class |-> c, neg |-> n, signaling |-> FALSE] :
        c \in {"finite", "zero", "inf", "nan"}, n \in BOOLEAN}
    \cup {[class |-> "nan", neg |-> n, signaling |-> TRUE] : n \in BOOLEAN}

\* The overloads that only forward to to_chars_float_impl, and the others.
Forwarding == {"float", "double", "ldbl64"}
Overloads == Forwarding \cup {"ldbl80", "ldbl128", "ldbl_fallback", "float128"}

\* The (first, last) pairs of the overload calls; two have first > last.
Ranges == {<<0, 32>>, <<0, 4>>, <<4, 4>>, <<8, 4>>, <<20, 0>>}

NoResult == Result(0, "pending")

CoreCall(o, sig, e, f, g) ==
    /\ op = o
    /\ significand = sig
    /\ decimal_exponent = e - (Len(DecDigits(sig)) - 1)
    /\ exponent = decimal_exponent
    /\ fmt = f
    /\ first = 0
    /\ last = BufferSize
    /\ value = Finite
    /\ buffer = [i \in 0..(BufferSize - 1) |-> g]
    /\ cursor = 0
    /\ stored = {}
    /\ loaded = {}
    /\ ub = FALSE
    /\ pc = "call"
    /\ result = NoResult
    /\ num_chars = <<>>
    /\ delegated = "none"
    /\ loaded_early = {}

OverloadCall(o, r, v, f, g) ==
    /\ op = o
    /\ significand = <<0, 0, 0, 0>>
    /\ decimal_exponent = 0
    /\ exponent = 0
    /\ fmt = f
    /\ first = r[1]
    /\ last = r[2]
    /\ value = v
    /\ buffer = [i \in 0..(BufferSize - 1) |-> g]
    /\ cursor = r[1]
    /\ stored = {}
    /\ loaded = {}
    /\ ub = FALSE
    /\ pc = "call"
    /\ result = NoResult
    /\ num_chars = <<>>
    /\ delegated = "none"
    /\ loaded_early = {}

Init ==
    \/ \E sig \in Significands(MaxDigits32), e \in FloatExps,
          f \in {"general", "scientific"}, g \in GarbageBytes :
          CoreCall("core_float", sig, e, f, g)
    \/ \E sig \in Significands(MaxDigits64), e \in DoubleExps,
          f \in {"general", "scientific"}, g \in GarbageBytes :
          CoreCall("core_double", sig, e, f, g)
    \/ \E e \in ExpSweep, f \in {"general", "scientific"} :
          CoreCall("core_double", FromDigits(<<1>>), e, f, Ch0)
    \/ \E o \in Overloads, r \in Ranges, v \in Values, f \in Formats,
          g \in GarbageBytes :
          OverloadCall(o, r, v, f, g)

\* The machine a core is entered with, and the state it leaves.
Enter == [buf |-> buffer, cur |-> cursor, exp |-> exponent,
          st |-> stored, ld |-> loaded, ub |-> ub,
          nc |-> num_chars, via |-> delegated, le |-> loaded_early]

Leave(m, nextpc) ==
    /\ buffer' = m.buf
    /\ cursor' = m.cur
    /\ exponent' = m.exp
    /\ stored' = m.st
    /\ loaded' = m.ld
    /\ ub' = m.ub
    /\ num_chars' = m.nc
    /\ delegated' = m.via
    /\ loaded_early' = m.le
    /\ pc' = nextpc
    /\ result' = IF nextpc = "done" THEN Result(m.cur, "ok") ELSE result
    /\ UNCHANGED <<op, significand, decimal_exponent, fmt, first, last, value>>

\* to_chars<float>: print_9_digits(s32, exponent, buffer)
FloatDigits ==
    /\ op = "core_float" /\ pc = "call"
    /\ Leave(print_9_digits(Enter, Lo32(significand)), "suffix")

\* to_chars<float>: the exponent and the return
FloatExponent ==
    /\ op = "core_float" /\ pc = "suffix"
    /\ Leave(FloatSuffix(Enter, fmt), "done")

\* to_chars<double>: the significand
DoubleSignificand ==
    /\ op = "core_double" /\ pc = "call"
    /\ Leave(DoubleDigits(Enter, significand), "suffix")

\* to_chars<double>: the exponent and the return
DoubleExponent ==
    /\ op = "core_double" /\ pc = "suffix"
    /\ Leave(DoubleSuffix(Enter, fmt), "done")

\* The state an overload call leaves: one of the pairs <<machine, result>>.
Return(outs) ==
    \E o \in outs :
        /\ buffer' = o[1].buf
        /\ stored' = o[1].st
        /\ loaded' = o[1].ld
        /\ ub' = o[1].ub
        /\ num_chars' = o[1].nc
        /\ delegated' = o[1].via
        /\ loaded_early' = o[1].le
        /\ cursor' = o[2].ptr
        /\ result' = o[2]
        /\ pc' = "done"
        /\ UNCHANGED <<op, significand, decimal_exponent, exponent, fmt, first, last, value>>

\* ToCharsForwarding with fmt not passed on: the callee's default, general.
ToCharsForwarding_DefaultFormat ==
    /\ op \in Forwarding /\ pc = "call"
    /\ Return(Via(to_chars_float_impl(Enter, first, last, value, "general"),
                  "to_chars_float_impl"))

\* to_chars(float), to_chars(double), to_chars(long double) of 64 bits
ToCharsForwarding ==
    /\ op \in Forwarding /\ pc = "call"
    /\ Return(Via(to_chars_float_impl(Enter, first, last, value, fmt),
                  "to_chars_float_impl"))

ToCharsLongDouble ==
    /\ op \in {"ldbl80", "ldbl128"} /\ pc = "call"
    /\ Return(to_chars_long_double(Enter, op, first, last, value, fmt))

ToCharsLongDoubleFallback ==
    /\ op = "ldbl_fallback" /\ pc = "call"
    /\ Return(to_chars_long_double_fallback(Enter, first, last, value))

ToCharsFloat128 ==
    /\ op = "float128" /\ pc = "call"
    /\ Return(to_chars_float128(Enter, first, last, value, fmt))

Next ==
    \/ FloatDigits
    \/ FloatExponent
    \/ DoubleSignificand
    \/ DoubleExponent
    \/ ToCharsForwarding
    \/ ToCharsLongDouble
    \/ ToCharsLongDoubleFallback
    \/ ToCharsFloat128

Spec == Init /\ [][Next]_vars

(***************************************************************************)
(* What the claims speak of.                                               *)
(***************************************************************************)
\* The bytes of [a, b) of the buffer.
Bytes(buf, a, b) == [i \in 1..(b - a) |-> buf[a + i - 1]]

IsDigit(c) == c >= Ch0 /\ c <= Ch0 + 9

\* The decimal digits of the significand passed in.
InDigits == DecDigits(significand)

\* A digit string without its trailing zeros (one digit is always kept).
RECURSIVE Strip(_)
Strip(ds) ==
    IF Len(ds) > 1 /\ ds[Len(ds)] = 0 THEN Strip(SubSeq(ds, 1, Len(ds) - 1)) ELSE ds

TrailingZeros(ds) == Len(ds) - Len(Strip(ds))

\* The reference significand text: the first digit, then '.' and the rest
\* when more than one digit is left after the trailing zeros are dropped.
SigText(ds) ==
    LET t == Strip(ds)
    IN  IF Len(t) = 1 THEN <<Ch0 + t[1]>>
        ELSE <<Ch0 + t[1], ChDot>> \o [i \in 1..(Len(t) - 1) |-> Ch0 + t[i + 1]]

\* The reference exponent text: 'e', the sign, |E| in two digits, or in
\* three when |E| >= 100.
ExpText(E) ==
    LET a == IF E < 0 THEN -E ELSE E
    IN  <<ChE, IF E < 0 THEN ChMinus ELSE ChPlus>>
        \o (IF a >= 100
            THEN <<Ch0 + (a \div 100), Ch0 + ((a \div 10) % 10), Ch0 + (a % 10)>>
            ELSE <<Ch0 + (a \div 10), Ch0 + (a % 10)>>)

\* The scientific exponent of the value passed in.
SciExp == decimal_exponent + Len(InDigits) - 1

IsCore == op \in {"core_float", "core_double"}

\* The precondition of both engines: a full-width significand (9 digits
\* for binary32, 17 for binary64) has no trailing zero.
FullWidth == IF op = "core_float" THEN MaxDigits32 ELSE MaxDigits64
ValidSignificand == Len(InDigits) < FullWidth \/ InDigits[Len(InDigits)] # 0

\* The significand text the engine left: the bytes up to the pointer.
Written == Bytes(buffer, first, cursor)
DigitsWritten == Cardinality({i \in 1..Len(Written) : IsDigit(Written[i])})

\* No table was left and no byte of the buffer was read before the call
\* stored it.
WellDefined == ~ub /\ loaded \subseteq stored

\* C1: under scientific, to_chars<double> writes byte for byte the
\* reference string (trimmed digits, '.', 'e', sign, two or three exponent
\* digits) for every valid significand with |E| <= 999, and returns the
\* pointer just past it.
C1_DoubleScientificMatchesReference ==
    (pc = "done" /\ op = "core_double" /\ fmt = "scientific" /\ ValidSignificand)
    => LET ref == SigText(InDigits) \o ExpText(SciExp)
       IN  /\ cursor = first + Len(ref)
           /\ result = Result(first + Len(ref), "ok")
           /\ Bytes(buffer, first, cursor) = ref

C1_Witness ==
    /\ pc = "done" /\ op = "core_double" /\ fmt = "scientific" /\ ValidSignificand
    /\ Len(InDigits) = MaxDigits64
    /\ SciExp <= -100
    /\ cursor = first + MaxDigits64 + 6

\* C2: after print_9_digits the bytes up to the returned pointer are the
\* leading digit, then '.' and the digits up to the last nonzero one when
\* there are any, and nothing else, for every valid s32.
C2_Print9DigitsWritesSignificand ==
    (pc = "suffix" /\ op = "core_float" /\ ValidSignificand)
    => /\ cursor = first + Len(SigText(InDigits))
       /\ Written = SigText(InDigits)

C2_Witness ==
    /\ pc = "suffix" /\ op = "core_float" /\ ValidSignificand
    /\ Len(InDigits) = 8 /\ TrailingZeros(InDigits) = 3
    /\ cursor = first + 6

\* C3 as stated: for every significand in [1, 10^17-1] the significand text
\* of to_chars<double> does not end in '0'.
C3_NoTrailingZeroAnySignificand ==
    (pc = "suffix" /\ op = "core_double")
    => cursor > first /\ (buffer[cursor - 1] # Ch0 \/ cursor = first + 1)

\* C3, amended: for every significand in [1, 10^17-1] that has no trailing
\* zero when it has 17 digits, the significand text of to_chars<double>
\* does not end in '0'.
C3_NoTrailingZeroValidSignificand ==
    (pc = "suffix" /\ op = "core_double" /\ ValidSignificand)
    => cursor > first /\ (buffer[cursor - 1] # Ch0 \/ cursor = first + 1)

C3_Witness ==
    /\ pc = "suffix" /\ op = "core_double" /\ ValidSignificand
    /\ Len(InDigits) = 16 /\ TrailingZeros(InDigits) = 5
    /\ cursor = first + 12

\* C4: in both engines the significand text holds a '.' exactly when more
\* than one digit is written, the '.' is the second byte, and the text
\* never ends in '.'.
C4_DotIffSeveralDigits ==
    (pc = "suffix" /\ IsCore)
    => /\ Len(Written) >= 1
       /\ (\E i \in 1..Len(Written) : Written[i] = ChDot) <=> DigitsWritten > 1
       /\ \A i \in 1..Len(Written) : Written[i] = ChDot => i = 2
       /\ Written[Len(Written)] # ChDot

C4_Witness ==
    /\ pc = "suffix" /\ op = "core_double"
    /\ Len(InDigits) = 11 /\ TrailingZeros(InDigits) = 10
    /\ cursor = first + 1
    /\ buffer[first + 1] = ChDot

\* C5: after the digit engine the exponent is decimal_exponent +
\* digits(s) - 1, in both engines, trimmed or not.
C5_ExponentIsScientific ==
    (pc = "suffix" /\ IsCore) => exponent = SciExp

C5_Witness ==
    /\ pc = "suffix" /\ op = "core_double"
    /\ Len(InDigits) = 12 /\ TrailingZeros(InDigits) = 2
    /\ exponent = decimal_exponent + 11

\* C6 as stated: the engine adds (digits written) - 1 to the exponent.
C6_ExponentAddsWrittenDigits ==
    (pc = "suffix" /\ IsCore /\ ValidSignificand)
    => exponent - decimal_exponent = DigitsWritten - 1

\* C6, amended: the engine adds (digits written) + (trailing zeros it
\* dropped) - 1 to the exponent, for every valid significand.
C6_ExponentAddsWrittenAndTrimmed ==
    (pc = "suffix" /\ IsCore /\ ValidSignificand)
    => exponent - decimal_exponent = DigitsWritten + TrailingZeros(InDigits) - 1

C6_Witness ==
    /\ pc = "suffix" /\ op = "core_float" /\ ValidSignificand
    /\ TrailingZeros(InDigits) = 2 /\ DigitsWritten = 2
    /\ exponent = decimal_exponent + 3

\* The bytes a step appended at the pointer, and what it left alone.
Appended == Bytes(buffer', cursor, cursor')
KeptBefore == \A i \in DOMAIN buffer : i < cursor => buffer'[i] = buffer[i]

\* C7: with exponent 0 after the digits, general appends nothing and
\* returns the end of the significand; scientific appends exactly "e+00";
\* in to_chars<float> and in to_chars<double>.
C7_ZeroExponentSuffix ==
    [][(pc = "suffix" /\ IsCore /\ exponent = 0)
       => /\ pc' = "done"
          /\ result' = Result(cursor', "ok")
          /\ IF fmt = "scientific"
             THEN /\ cursor' = cursor + 4
                  /\ Appended = <<ChE, ChPlus, Ch0, Ch0>>
                  /\ KeptBefore
             ELSE /\ cursor' = cursor
                  /\ buffer' = buffer
                  /\ stored' = stored]_vars

C7_Witness ==
    /\ pc = "done" /\ op = "core_float" /\ fmt = "general"
    /\ exponent = 0 /\ SciExp = 0
    /\ Len(InDigits) = 7
    /\ cursor = first + 8

\* C8: under scientific the suffix is 'e', '+' or '-', and the decimal
\* digits of the exponent magnitude: two for binary32; for binary64 two
\* below 100 and three from 100 on; '-' exactly for a negative exponent.
C8_ScientificSuffixForm ==
    [][(pc = "suffix" /\ IsCore /\ fmt = "scientific")
       => /\ Appended = ExpText(exponent)
          /\ KeptBefore
          /\ op = "core_float" => cursor' = cursor + 4
          /\ op = "core_double" =>
               cursor' = cursor + (IF exponent >= 100 \/ exponent <= -100 THEN 5 ELSE 4)]_vars

C8_Witness ==
    /\ pc = "done" /\ op = "core_double" /\ fmt = "scientific"
    /\ SciExp = -100
    /\ Bytes(buffer, cursor - 5, cursor) = <<ChE, ChMinus, Ch0 + 1, Ch0, Ch0>>

\* C9: every byte either core stores lies below offset 32 of the buffer it
\* was given, and the pointer it returns is past the start and at most 32
\* past it.
C9_CoreStaysInBuffer ==
    IsCore => /\ \A off \in stored : off >= first /\ off < first + BufferSize
              /\ pc = "done" => /\ result.ptr > first
                                /\ result.ptr <= first + BufferSize

C9_Witness ==
    /\ pc = "done" /\ op = "core_double"
    /\ cursor = first + MaxDigits64 + 6
    /\ (first + MaxDigits64 + 5) \in stored

\* C10: an overload called with first > last returns {last,
\* invalid_argument} and writes no byte.
C10_InvalidRangeRejected ==
    (pc = "done" /\ op \in Overloads /\ first > last)
    => /\ result = Result(last, "invalid_argument")
       /\ stored = {}

\* The overloads that call the generic writers themselves, and the int the
\* last such call returned.
Dispatchers == {"ldbl80", "ldbl128", "float128"}
LastNumChars == num_chars[Len(num_chars)]

\* A call in which the writer the format selects (generic_to_chars for
\* general and scientific, generic_to_chars_fixed for fixed) ran last and
\* did not return a length.
WriterFailed ==
    /\ pc = "done" /\ op \in Dispatchers /\ fmt # "hex"
    /\ num_chars # <<>> /\ LastNumChars <= 0

\* C11 as stated: whenever the generic or the fixed writer returns -1 or
\* the out-of-range sentinel, the overload returns {last,
\* result_out_of_range}.
C11_WriterFailureIsOutOfRange ==
    (WriterFailed /\ LastNumChars \in {-1, -ERange})
    => result = Result(last, "result_out_of_range")

\* C11, amended: when the fixed writer returns the out-of-range sentinel
\* the overload itself returns {last, result_out_of_range}; when the
\* generic or the fixed writer returns any other value that is not a
\* length (-1 included) the overload returns what to_chars_printf_impl
\* returns.
C11_SentinelRejectedElsePrintf ==
    WriterFailed
    => IF fmt = "fixed" /\ LastNumChars = -ERange
       THEN result = Result(last, "result_out_of_range") /\ delegated = "none"
       ELSE delegated = "to_chars_printf_impl"

C11_Witness ==
    /\ WriterFailed /\ op = "float128" /\ fmt = "fixed"
    /\ num_chars = <<-ERange>>
    /\ first = 0 /\ last = 4
    /\ result = Result(last, "result_out_of_range")

C13_EngineNeverReads ==
    IsCore => loaded = {}

\* C13, amended: the digit engine reads no byte of the buffer except
\* bytes it has itself stored earlier in the same call.
C13_EngineReadsOnlyItsOwnBytes ==
    IsCore => /\ loaded_early = {}
              /\ loaded \subseteq stored

C13_Witness ==
    /\ pc = "suffix" /\ op = "core_double"
    /\ Len(InDigits) = 14 /\ TrailingZeros(InDigits) = 3
    /\ loaded = {cursor}
    /\ cursor \in stored /\ buffer[cursor] = Ch0

\* The digits print_9_digits leaves after the head of an n-digit s32
\* (n >= 3): 8, 6, 4 or 2.
AfterHead(n) == IF n = 9 THEN 8 ELSE IF n >= 7 THEN 6 ELSE IF n >= 5 THEN 4 ELSE 2

\* The k pairs that follow prod: high32(low32(prod) * 100), repeated.
RECURSIVE PairSeq(_, _)
PairSeq(prod, k) ==
    IF k = 0 THEN <<>>
    ELSE <<Small(Hi32(NextProd(prod)))>> \o PairSeq(NextProd(prod), k - 1)

\* The pairs of decimal digits of ds from position a on.
DigitPairs(ds, a) ==
    [i \in 1..((Len(ds) - a + 1) \div 2) |-> 10 * ds[a + 2 * i - 2] + ds[a + 2 * i - 1]]

\* The head of an n-digit s32: its first digit, or its first two when two
\* digits stand before the pairs.
HeadOf(ds) ==
    IF Len(ds) - AfterHead(Len(ds)) = 1 THEN ds[1] ELSE 10 * ds[1] + ds[2]

\* An s32 of print_9_digits in a multiply-high band.
InBand == op = "core_float" /\ Len(InDigits) >= 3

\* C14: in each multiply-high band of print_9_digits the high 32 bits of
\* the shifted product are floor(s32 / 10^m), every following pair
\* high32(low32(prod) * 100) is the next two decimal digits of s32, and
\* the 64-bit product does not wrap.
C14_BandProductsGiveDigits ==
    InBand
    => LET s32 == Lo32(significand)
           m == AfterHead(Len(InDigits))
       IN  /\ Small(Hi32(BandProd(s32))) = HeadOf(InDigits)
           /\ PairSeq(BandProd(s32), m \div 2)
                = DigitPairs(InDigits, Len(InDigits) - m + 1)
           /\ Mul32Carry(s32, U32(BandMultiplier(s32))) = 0
           /\ Mul32Carry(Lo32(BandProd(s32)), U32(100)) = 0

C14_Witness ==
    /\ InBand /\ pc = "suffix" /\ Len(InDigits) = 6
    /\ InDigits = <<9, 9, 9, 9, 9, 9>>
    /\ PairSeq(BandProd(Lo32(significand)), 2) = <<99, 99>>
    /\ cursor = first + 7

\* C15 as stated: for a 9-digit s32 the head, the high 32 bits of
\* (s32 * 1441151882) >> 25, lies in [10, 99].
C15_NineDigitHeadTwoDigits ==
    (op = "core_float" /\ Len(InDigits) = MaxDigits32)
    => LET head == Small(Hi32(BandProd(Lo32(significand))))
       IN  head >= 10 /\ head <= 99

\* C15, amended: for a 9-digit s32 the head, the high 32 bits of
\* (s32 * 1441151882) >> 25, lies in [1, 9]: it is the first digit of s32.
C15_NineDigitHeadOneDigit ==
    (op = "core_float" /\ Len(InDigits) = MaxDigits32)
    => LET head == Small(Hi32(BandProd(Lo32(significand))))
       IN  head >= 1 /\ head <= 9 /\ head = InDigits[1]

C15_Witness ==
    /\ op = "core_float" /\ pc = "suffix" /\ Len(InDigits) = MaxDigits32
    /\ InDigits[1] = 9 /\ InDigits[9] = 9
    /\ Small(Hi32(BandProd(Lo32(significand)))) = 9
    /\ buffer[first] = Ch0 + 9 /\ buffer[first + 1] = ChDot
    /\ cursor = first + 10

\* The last r digits of ds are all zero.
EndsInZeros(ds, r) == \A i \in (Len(ds) - r + 1)..Len(ds) : ds[i] = 0

\* Every trailing-zero test reached from prod with r digits still to
\* come answers "all zero" exactly when the last r digits of ds are zero;
\* the next test is reached when this one answers no.
RECURSIVE TestsAgree(_, _, _)
TestsAgree(prod, r, ds) ==
    IF r = 0 THEN TRUE
    ELSE /\ RemainingZero(prod, r) <=> EndsInZeros(ds, r)
         /\ RemainingZero(prod, r) \/ TestsAgree(NextProd(prod), r - 2, ds)

\* A call of print_9_digits that reaches a trailing-zero test (3 to 8
\* digits), and a call of to_chars<double> that trims its second block.
TestsInPrint9 == InBand /\ Len(InDigits) < MaxDigits32
TestsInSecondBlock ==
    /\ op = "core_double"
    /\ Len(InDigits) > 8 /\ Len(InDigits) < MaxDigits64
    /\ TrailingZeros(InDigits) < 8

\* C16: at every trailing-zero test of print_9_digits and of the second
\* block of to_chars<double>, the early stop is taken if and only if all
\* digits of the block not yet written are zero.
C16_EarlyStopIffRestZero ==
    /\ TestsInPrint9 =>
         TestsAgree(BandProd(Lo32(significand)), AfterHead(Len(InDigits)), InDigits)
    /\ TestsInSecondBlock =>
         TestsAgree(SecondProd(SecondOf(significand)), 6, InDigits)

C16_Witness ==
    /\ TestsInSecondBlock /\ pc = "suffix"
    /\ Len(InDigits) = 13 /\ TrailingZeros(InDigits) = 4
    /\ ~RemainingZero(SecondProd(SecondOf(significand)), 6)
    /\ RemainingZero(NextProd(SecondProd(SecondOf(significand))), 4)
    /\ cursor = first + 10

\* After print_9_digits: the pointer the pairs were written from (the start,
\* one further on for a two-digit head), the last byte stored, and the
\* number k of the last further pair written (pair k lies at PairBase +
\* 2 + 2k and PairBase + 3 + 2k).
PairBase == first + Len(InDigits) - AfterHead(Len(InDigits)) - 1
LastStored == CHOOSE x \in stored : \A y \in stored : y <= x
LastPair == (LastStored - PairBase - 3) \div 2

\* print_9_digits stopped at a trailing-zero test after a further pair:
\* a pair was written and pairs of the band were left out.
StoppedAfterPair ==
    /\ pc = "suffix" /\ InBand /\ Len(InDigits) < MaxDigits32
    /\ LastStored >= PairBase + 3
    /\ 2 * LastPair + 2 < AfterHead(Len(InDigits))

\* C17 as stated: after the k-th further pair is written at cursor[2+2k]
\* and the threshold is met, the cursor is advanced by 2k+3 if the last
\* written digit is nonzero and by 2k+2 if it is '0'.
C17_AdvanceAfterPairAsStated ==
    StoppedAfterPair
    => cursor - PairBase
         = IF buffer[LastStored] # Ch0 THEN 2 * LastPair + 3 ELSE 2 * LastPair + 2

\* C17, amended: after the k-th further pair is written at cursor[2+2k]
\* and the threshold is met, the cursor is advanced by 2k+4 if the last
\* written digit is nonzero and by 2k+3 if it is '0'.
C17_AdvanceAfterPair ==
    StoppedAfterPair
    => /\ LastStored = PairBase + 3 + 2 * LastPair
       /\ cursor - PairBase
            = IF buffer[LastStored] # Ch0 THEN 2 * LastPair + 4 ELSE 2 * LastPair + 3

C17_Witness ==
    /\ StoppedAfterPair
    /\ Len(InDigits) = 8 /\ TrailingZeros(InDigits) = 3
    /\ PairBase = first + 1 /\ LastPair = 1
    /\ buffer[LastStored] = Ch0
    /\ cursor = first + 6

\* A 17-digit significand whose low 8 digits are not all zero.
Dense17Case ==
    /\ op = "core_double" /\ pc = "suffix"
    /\ Len(InDigits) = MaxDigits64
    /\ TrailingZeros(InDigits) < 8

\* C18: for a 17-digit significand with a nonzero second block,
\* to_chars<double> writes exactly 18 significand bytes, the first digit,
\* '.', and the other 16 digits untrimmed, and raises the exponent by 16.
C18_SeventeenDigitsDense ==
    Dense17Case
    => /\ cursor = first + MaxDigits64 + 1
       /\ stored = first .. (first + MaxDigits64)
       /\ Written = <<Ch0 + InDigits[1], ChDot>>
                      \o [i \in 1..(MaxDigits64 - 1) |-> Ch0 + InDigits[i + 1]]
       /\ exponent = decimal_exponent + MaxDigits64 - 1

C18_Witness ==
    /\ Dense17Case
    /\ InDigits = <<1, 7, 9, 7, 6, 9, 3, 1, 3, 4, 8, 6, 2, 3, 1, 5, 7>>
    /\ cursor = first + 18
    /\ buffer[first + 17] = Ch0 + 7
    /\ exponent = decimal_exponent + 16

\* A significand of to_chars<double> with a second block in [1, 10^8 - 1].
HasSecondBlock ==
    /\ op = "core_double"
    /\ Len(InDigits) > 8
    /\ TrailingZeros(InDigits) < 8

\* The four pairs the second block is written from, starting at prod:
\* high32(prod), then high32(low32 * 100) three times.
FourPairs(prod) == <<Small(Hi32(prod))>> \o PairSeq(prod, 3)

\* The 8 digits of the second block, zero padded: the low 8 digits.
SecondDigits == SubSeq(InDigits, Len(InDigits) - 7, Len(InDigits))

\* C19: with the `prod += 1` the four pairs of the second block are its
\* 8-digit zero-padded decimal expansion, for every second block in
\* [1, 10^8 - 1]; without it some second block gives a wrong pair.
C19_IncrementGivesSecondBlockDigits ==
    HasSecondBlock
    => FourPairs(SecondProd(SecondOf(significand))) = DigitPairs(SecondDigits, 1)

C19_Witness ==
    /\ HasSecondBlock /\ pc = "suffix"
    /\ SecondDigits = <<0, 0, 0, 0, 0, 0, 0, 1>>
    /\ FourPairs(SecondProd(SecondOf(significand))) = <<0, 0, 0, 1>>
    /\ FourPairs(SecondProd_NoIncrement(SecondOf(significand))) = <<0, 0, 0, 0>>
    /\ buffer[cursor - 1] = Ch0 + 1

\* The magnitude of the exponent to_chars<double> writes.
ExpMagnitude == IF SciExp < 0 THEN 0 - SciExp ELSE SciExp

\* C20: for every exponent magnitude in [100, 999], prod = exp * 6554,
\* d1 = prod >> 16 and d2 = (low16(prod) * 5) >> 15 give d1 = floor(exp /
\* 10) in [10, 99] and d2 = exp mod 10 in [0, 9], and the three bytes
\* written are the decimal digits of exp.
C20_ThreeDigitExponent ==
    (op = "core_double" /\ ExpMagnitude >= 100 /\ ExpMagnitude <= 999)
    => LET d1 == ExpD1(ExpProd(ExpMagnitude))
           d2 == ExpD2(ExpProd(ExpMagnitude))
       IN  /\ d1 = ExpMagnitude \div 10 /\ d1 >= 10 /\ d1 <= 99
           /\ d2 = ExpMagnitude % 10 /\ d2 >= 0 /\ d2 <= 9
           /\ pc = "done" =>
                Bytes(buffer, cursor - 3, cursor)
                  = <<Ch0 + (ExpMagnitude \div 100),
                      Ch0 + ((ExpMagnitude \div 10) % 10),
                      Ch0 + (ExpMagnitude % 10)>>

C20_Witness ==
    /\ op = "core_double" /\ pc = "done" /\ SciExp = 0 - 579
    /\ ExpD1(ExpProd(ExpMagnitude)) = 57 /\ ExpD2(ExpProd(ExpMagnitude)) = 9
    /\ Bytes(buffer, first, cursor)
         = <<Ch0 + 1, ChE, ChMinus, Ch0 + 5, Ch0 + 7, Ch0 + 9>>

\* The text of a NaN: "nan", "-nan(ind)", "nan(snan)" or "-nan(snan)", by
\* sign and signaling-ness.
NanText(v) ==
    (IF v.neg THEN <<ChMinus>> ELSE <<>>)
    \o (IF v.signaling THEN TextNanSnan ELSE IF v.neg THEN TextNanInd ELSE TextNan)

\* C21: on the fallback long double path, for every NaN the text written
\* from first on is "nan", "-nan(ind)", "nan(snan)" or "-nan(snan)" by sign
\* and signaling-ness, and the pointer returned is first plus the length
\* of that text (checked for the ranges that hold the text).
C21_FallbackNanTextAndPointer ==
    (pc = "done" /\ op = "ldbl_fallback" /\ value.class = "nan"
        /\ last - first >= Len(NanText(value)))
    => /\ Bytes(buffer, first, first + Len(NanText(value))) = NanText(value)
       /\ result = Result(first + Len(NanText(value)), "ok")

====
